---------------------------- MODULE Spec2Model ----------------------------
(***************************************************************************)
(* Model of the PRISM tuning tools: the layered configuration store and    *)
(* the experiment builder of tools/prism_cli.py, and the log summarizer of *)
(* tools/summarize_wr_log.py.                                              *)
(*                                                                         *)
(* A TOML file is a sequence of lines.  A line is a record: a comment, a   *)
(* blank line, a [table] header, a "key = value" assignment whose value is *)
(* kept as its characters, or a line that is no TOML at all.  Keys are     *)
(* bare keys and are kept whole; values are formatted to characters and    *)
(* parsed back from characters.                                            *)
(*                                                                         *)
(* A Python dict is a sequence of entries in insertion order.              *)
(***************************************************************************)
EXTENDS Integers, Sequences, FiniteSets, TLC

VARIABLES
    base,         \* configs/base/....toml        (BASE_CONFIG)
    override,     \* configs/global_hyper.toml    (GLOBAL_HYPER)
    experiment,   \* overrides/<exp_name>.toml
    pc,           \* where the interactive session stands
    config_data,  \* create_experiment's list of collected edit batches
    call,         \* the last finished operation: arguments and outcome
    probe         \* input and results of a function applied on its own,
                  \* or the run of the log summarizer

vars == <<base, override, experiment, pc, config_data, call, probe>>

---------------------------------------------------------------------------
(* Scalars.  t is the Python type; n the number (a float is kept in        *)
(* tenths, a bool as 0/1); s the characters of a string.                   *)

NoVal == [t |-> "none", n |-> 0, s |-> <<>>]

IntV(i) == [t |-> "int", n |-> i, s |-> <<>>]

FloatV(tenths) == [t |-> "float", n |-> tenths, s |-> <<>>]

BoolV(b) == [t |-> "bool", n |-> IF b THEN 1 ELSE 0, s |-> <<>>]

StrV(chars) == [t |-> "str", n |-> 0, s |-> chars]

\* Python truth value of a scalar: `if not section_data`.
Truthy(v) == IF v.t = "str" THEN v.s # <<>> ELSE v.n # 0

---------------------------------------------------------------------------
(* Dicts in insertion order.  An entry is a scalar (isdict = FALSE, val)   *)
(* or a nested dict (isdict = TRUE, sub).                                  *)

EmptyDict == <<>>

Scalar(k, v) == [key |-> k, isdict |-> FALSE, val |-> v, sub |-> <<>>]

Section(k, d) == [key |-> k, isdict |-> TRUE, val |-> NoVal, sub |-> d]

Keys(d) == {d[i].key : i \in DOMAIN d}

Has(d, k) == \E i \in DOMAIN d : d[i].key = k

IndexOf(d, k) == CHOOSE i \in DOMAIN d : d[i].key = k

Get(d, k) == d[IndexOf(d, k)]

\* d[k] = entry: an existing key keeps its place, a new key goes last.
Put(d, e) ==
    IF Has(d, e.key)
    THEN [d EXCEPT ![IndexOf(d, e.key)] = e]
    ELSE Append(d, e)

\* Python's == on dicts: the same keys with equal values, in any order.
RECURSIVE DictEq(_, _)
DictEq(a, b) ==
    /\ Len(a) = Len(b)
    /\ \A i \in DOMAIN a :
         /\ Has(b, a[i].key)
         /\ LET y == Get(b, a[i].key)
            IN  /\ a[i].isdict = y.isdict
                /\ IF a[i].isdict THEN DictEq(a[i].sub, y.sub)
                                  ELSE a[i].val = y.val

---------------------------------------------------------------------------
(* The parameter catalog.                                                  *)

\* SECTION_PARAM_ORDER.keys(): SECTION_MAP's sections in TUNABLE_PARAMS order.
CatalogSections ==
    << "", "cpu", "gpu", "adp", "thermo", "quantum", "memetic",
       "transfer_entropy", "orchestrator", "neuromorphic", "geodesic" >>

\* SECTION_PARAM_ORDER.get(section, [])
SECTION_PARAM_ORDER(section) ==
    CASE section = "" ->
           << "target_chromatic", "max_runtime_hours", "deterministic",
              "seed", "use_tda", "use_pimc" >>
      [] section = "cpu" -> << "threads" >>
      [] section = "gpu" -> << "device_id", "streams", "batch_size" >>
      [] section = "adp" ->
           << "epsilon", "epsilon_decay", "epsilon_min", "alpha", "gamma" >>
      [] section = "thermo" ->
           << "replicas", "num_temps", "steps_per_temp", "t_min", "t_max" >>
      [] section = "quantum" ->
           << "iterations", "failure_retries", "fallback_on_failure",
              "target_chromatic" >>
      [] section = "memetic" ->
           << "population_size", "elite_size", "generations",
              "mutation_rate", "tournament_size", "local_search_depth",
              "use_tsp_guidance", "tsp_weight" >>
      [] section = "transfer_entropy" ->
           << "geodesic_weight", "te_vs_kuramoto_weight" >>
      [] section = "orchestrator" ->
           << "adp_dsatur_depth", "dsatur_target_offset",
              "adp_min_history_for_thermo", "adp_min_history_for_quantum",
              "adp_min_history_for_loopback", "restarts" >>
      [] section = "neuromorphic" -> << "phase_threshold" >>
      [] section = "geodesic" ->
           << "num_landmarks", "metric", "centrality_weight",
              "eccentricity_weight" >>
      [] OTHER -> << >>

Range(s) == {s[i] : i \in DOMAIN s}

\* The names the layers of this model are built from, in the order Python's
\* sorted() puts them (code point order of the strings).
SortedNames ==
    << "adp", "aux", "batch_size", "device_id", "gpu", "seed",
       "target_chromatic" >>

\* sorted(keys)
Sorted(keys) == SelectSeq(SortedNames, LAMBDA n : n \in keys)

---------------------------------------------------------------------------
(* Values as text.                                                         *)

Digits == << "0", "1", "2", "3", "4", "5", "6", "7", "8", "9" >>

IsDigit(c) == \E i \in 1..10 : Digits[i] = c

DigitOf(c) == (CHOOSE i \in 1..10 : Digits[i] = c) - 1

\* f"{n}" of a natural number
RECURSIVE NatText(_)
NatText(n) ==
    IF n < 10 THEN << Digits[n + 1] >>
    ELSE Append(NatText(n \div 10), Digits[(n % 10) + 1])

Abs(n) == IF n < 0 THEN -n ELSE n

Sign(n) == IF n < 0 THEN << "-" >> ELSE << >>

\* f"{value}" of an int
IntText(n) == Sign(n) \o NatText(Abs(n))

\* f"{value}" of a float (repr): the integer part, a point, the tenths
FloatText(tenths) ==
    Sign(tenths) \o NatText(Abs(tenths) \div 10)
        \o << "." >> \o << Digits[(Abs(tenths) % 10) + 1] >>

\* json.dumps of a str: quoted, with " and \ escaped by a backslash
RECURSIVE JsonEscape(_)
JsonEscape(chars) ==
    IF chars = << >> THEN << >>
    ELSE LET c == Head(chars)
         IN  (IF c = "\"" \/ c = "\\" THEN << "\\", c >> ELSE << c >>)
                 \o JsonEscape(Tail(chars))

JsonDumps(chars) == << "\"" >> \o JsonEscape(chars) \o << "\"" >>

TrueText == << "t", "r", "u", "e" >>

FalseText == << "f", "a", "l", "s", "e" >>

_format_toml_value(value) ==
    IF value.t = "bool" THEN (IF value.n = 1 THEN TrueText ELSE FalseText)
    ELSE IF value.t = "int" THEN IntText(value.n)
    ELSE IF value.t = "float" THEN FloatText(value.n)
    ELSE JsonDumps(value.s)

Bad == [ok |-> FALSE, v |-> NoVal]

Good(v) == [ok |-> TRUE, v |-> v]

RECURSIVE NatOf(_)
NatOf(ds) ==
    IF ds = << >> THEN 0
    ELSE 10 * NatOf(SubSeq(ds, 1, Len(ds) - 1)) + DigitOf(ds[Len(ds)])

AllDigits(ds) == ds # << >> /\ \A i \in DOMAIN ds : IsDigit(ds[i])

\* A TOML decimal integer part: digits, no leading zero.
IntPart(ds) == AllDigits(ds) /\ (Len(ds) > 1 => ds[1] # "0")

\* A TOML basic string from position i on, `acc` the characters read so far:
\* it ends at the first unescaped quote, which must be the last character.
RECURSIVE BasicString(_, _, _)
BasicString(txt, i, acc) ==
    IF i > Len(txt) THEN Bad
    ELSE IF txt[i] = "\"" THEN (IF i = Len(txt) THEN Good(StrV(acc)) ELSE Bad)
    ELSE IF txt[i] = "\\"
         THEN IF i + 1 <= Len(txt) /\ (txt[i + 1] = "\"" \/ txt[i + 1] = "\\")
              THEN BasicString(txt, i + 2, Append(acc, txt[i + 1]))
              ELSE Bad
    ELSE BasicString(txt, i + 1, Append(acc, txt[i]))

\* A TOML number: [sign] digits, or [sign] digits "." digit (the floats of
\* this model have one fractional digit).
Number(txt) ==
    LET neg  == txt # << >> /\ txt[1] = "-"
        body == IF txt # << >> /\ (txt[1] = "-" \/ txt[1] = "+")
                THEN Tail(txt) ELSE txt
        dots == {i \in DOMAIN body : body[i] = "."}
        sgn  == IF neg THEN -1 ELSE 1
    IN  IF dots = {}
        THEN IF IntPart(body) THEN Good(IntV(sgn * NatOf(body))) ELSE Bad
        ELSE LET d == CHOOSE i \in dots : TRUE
                 whole == SubSeq(body, 1, d - 1)
                 frac  == SubSeq(body, d + 1, Len(body))
             IN  IF Cardinality(dots) = 1 /\ IntPart(whole)
                    /\ AllDigits(frac) /\ Len(frac) = 1
                 THEN Good(FloatV(sgn * (10 * NatOf(whole) + NatOf(frac))))
                 ELSE Bad

\* The value of a "key = value" line as tomllib reads it.
ParseValue(txt) ==
    IF txt = TrueText THEN Good(BoolV(TRUE))
    ELSE IF txt = FalseText THEN Good(BoolV(FALSE))
    ELSE IF txt # << >> /\ txt[1] = "\"" THEN BasicString(txt, 2, << >>)
    ELSE Number(txt)

---------------------------------------------------------------------------
(* Lines and files.                                                        *)

CommentLine(what) == [k |-> "comment", key |-> what, val |-> << >>]

\* "# Last updated: <now>", "# Created: <now>"
StampLine(label, now) == [k |-> "comment", key |-> label, val |-> << now >>]

BlankLine == [k |-> "blank", key |-> "", val |-> << >>]

TableLine(name) == [k |-> "table", key |-> name, val |-> << >>]

KvLine(key, txt) == [k |-> "kv", key |-> key, val |-> txt]

\* A line that is not TOML, such as "[gpu" with no closing bracket.
JunkLine == [k |-> "junk", key |-> "", val |-> << >>]

Absent == [exists |-> FALSE, lines |-> << >>]

File(lines) == [exists |-> TRUE, lines |-> lines]

\* tomllib.load / toml.load: the dict of a document, or TOMLDecodeError.
\* Top-level keys and tables may each be given once; a table may not take
\* the name of a top-level key.
RECURSIVE ParseLines(_, _, _, _)
ParseLines(lines, i, cur, data) ==
    IF i > Len(lines) THEN [ok |-> TRUE, data |-> data]
    ELSE LET ln == lines[i]
             failed == [ok |-> FALSE, data |-> EmptyDict]
         IN  CASE ln.k \in {"comment", "blank"} ->
                    ParseLines(lines, i + 1, cur, data)
               [] ln.k = "table" ->
                    IF Has(data, ln.key) THEN failed
                    ELSE ParseLines(lines, i + 1, ln.key,
                                    Append(data, Section(ln.key, EmptyDict)))
               [] ln.k = "kv" ->
                    LET pv == ParseValue(ln.val)
                    IN  IF ~pv.ok THEN failed
                        ELSE IF cur = ""
                        THEN IF Has(data, ln.key) THEN failed
                             ELSE ParseLines(lines, i + 1, cur,
                                      Append(data, Scalar(ln.key, pv.v)))
                        ELSE LET sec == Get(data, cur)
                             IN  IF Has(sec.sub, ln.key) THEN failed
                                 ELSE ParseLines(lines, i + 1, cur,
                                        Put(data, Section(cur,
                                          Append(sec.sub,
                                                 Scalar(ln.key, pv.v)))))
               [] OTHER -> failed

ParseToml(lines) == ParseLines(lines, 1, "", EmptyDict)

\* A loader that answers a parse error with an empty layer.
_load_toml_Fallback(file) ==
    IF ~file.exists THEN [ok |-> TRUE, data |-> EmptyDict]
    ELSE IF ParseToml(file.lines).ok THEN ParseToml(file.lines)
    ELSE [ok |-> TRUE, data |-> EmptyDict]

\* _load_toml(path): {} for a missing file, else the parsed document; a
\* malformed document raises (ok = FALSE).
_load_toml(file) ==
    IF ~file.exists THEN [ok |-> TRUE, data |-> EmptyDict]
    ELSE ParseToml(file.lines)

---------------------------------------------------------------------------
(* ConfigStore: merge.                                                     *)

RECURSIVE _deep_merge(_, _)

\* del d[k]
Remove(d, k) == SelectSeq(d, LAMBDA e : e.key # k)

\* MergeItem with a slip: a name that is a section on one side and a scalar
\* on the other is dropped from the result instead of being replaced.
MergeItem_DropClash(b, e) ==
    IF Has(b, e.key) /\ Get(b, e.key).isdict /\ e.isdict
    THEN Put(b, Section(e.key, _deep_merge(Get(b, e.key).sub, e.sub)))
    ELSE IF Has(b, e.key) /\ Get(b, e.key).isdict # e.isdict
    THEN Remove(b, e.key)
    ELSE Put(b, e)

\* MergeItem with a slip: a shallow merge, the override's section replaces
\* the base's section whole.
MergeItem_Shallow(b, e) == Put(b, e)

\* One turn of _deep_merge's loop: two dicts under the same key are merged,
\* anything else is replaced by (or added from) the override.
MergeItem(b, e) ==
    IF Has(b, e.key) /\ Get(b, e.key).isdict /\ e.isdict
    THEN Put(b, Section(e.key, _deep_merge(Get(b, e.key).sub, e.sub)))
    ELSE Put(b, e)

RECURSIVE MergeFrom(_, _, _)
MergeFrom(b, o, i) ==
    IF i > Len(o) THEN b ELSE MergeFrom(MergeItem(b, o[i]), o, i + 1)

\* _deep_merge(base, override): the value of `base` when it returns.
_deep_merge(b, o) == MergeFrom(b, o, 1)

\* copy.deepcopy(d): an equal value in a new object (shared = FALSE: a
\* later change of the copy does not show in the original).
DeepCopy(d) == [shared |-> FALSE, val |-> d]

\* load_active_config(): the returned dict, and what base_data holds when
\* it returns.  Either load may raise.
load_active_config(baseFile, overrideFile) ==
    LET base_data   == _load_toml(baseFile)
        global_data == _load_toml(overrideFile)
    IN  IF ~base_data.ok \/ ~global_data.ok
        THEN [ok |-> FALSE, ret |-> EmptyDict, base_data |-> EmptyDict]
        ELSE LET merged == DeepCopy(base_data.data)
                 after  == _deep_merge(merged.val, global_data.data)
             IN  [ok |-> TRUE, ret |-> after,
                  base_data |-> IF merged.shared THEN after
                                ELSE base_data.data]

\* load_global_config()
load_global_config(overrideFile) ==
    LET loaded == _load_toml(overrideFile)
    IN  [ok |-> loaded.ok, ret |-> DeepCopy(loaded.data).val]

---------------------------------------------------------------------------
(* ConfigStore: write.                                                     *)

\* The keys of `data` in the order of `order`, then its other keys sorted.
CatalogThenSorted(order, data) ==
    LET first == SelectSeq(order, LAMBDA k : Has(data, k))
    IN  first \o SelectSeq(Sorted(Keys(data)),
                           LAMBDA k : k \notin Range(first))

\* _iter_section_items(section, data): the keys in the order yielded
_iter_section_items(section, data) ==
    CatalogThenSorted(SECTION_PARAM_ORDER(section), data)

\* The "key = value" lines of `keys`, values taken from `data`.
KvLines(keys, data) ==
    [i \in 1..Len(keys) |->
        KvLine(keys[i], _format_toml_value(Get(data, keys[i]).val))]

\* write_global_config: the top-level entries
TopLevelLines(data) ==
    LET top_level == SelectSeq(data, LAMBDA e : ~e.isdict)
    IN  KvLines(CatalogThenSorted(SECTION_PARAM_ORDER(""), top_level),
                top_level)
          \o (IF top_level # << >> THEN << BlankLine >> ELSE << >>)

\* write_global_config: section_order
SectionOrder(data) ==
    LET section_order == SelectSeq(CatalogSections, LAMBDA sec : sec # "")
        extra_sections == {sec \in Keys(data) :
                             /\ Get(data, sec).isdict
                             /\ sec \notin Range(section_order)}
    IN  section_order \o Sorted(extra_sections)

\* write_global_config: the lines of one section of section_order.  An
\* absent or empty section gives none; a scalar under the section's name
\* gives none when it is falsy and raises when it is truthy.
SectionLines(data, section) ==
    IF ~Has(data, section) THEN [ok |-> TRUE, lines |-> << >>]
    ELSE LET section_data == Get(data, section)
         IN  IF section_data.isdict
             THEN [ok |-> TRUE,
                   lines |-> IF section_data.sub = << >> THEN << >>
                             ELSE << TableLine(section) >>
                                  \o KvLines(_iter_section_items(section,
                                                 section_data.sub),
                                             section_data.sub)
                                  \o << BlankLine >>]
             ELSE [ok |-> ~Truthy(section_data.val), lines |-> << >>]

RECURSIVE SectionsFrom(_, _, _)
SectionsFrom(data, order, i) ==
    IF i > Len(order) THEN [ok |-> TRUE, lines |-> << >>]
    ELSE LET one  == SectionLines(data, order[i])
             rest == SectionsFrom(data, order, i + 1)
         IN  IF one.ok /\ rest.ok
             THEN [ok |-> TRUE, lines |-> one.lines \o rest.lines]
             ELSE [ok |-> FALSE, lines |-> << >>]

\* "\n".join(lines).rstrip() + "\n": no blank lines at the end
RECURSIVE RStrip(_)
RStrip(lines) ==
    IF lines # << >> /\ lines[Len(lines)].k = "blank"
    THEN RStrip(SubSeq(lines, 1, Len(lines) - 1))
    ELSE lines

\* write_global_config(data) at time `now`: the text written, or ok =
\* FALSE when it raises before the file is opened.
write_global_config(data, now) ==
    LET header   == << CommentLine("PRISM CLI Managed Overrides"),
                       StampLine("Last updated", now), BlankLine >>
        sections == SectionsFrom(data, SectionOrder(data), 1)
    IN  IF sections.ok
        THEN [ok |-> TRUE,
              lines |-> RStrip(header \o TopLevelLines(data)
                                      \o sections.lines)]
        ELSE [ok |-> FALSE, lines |-> << >>]

---------------------------------------------------------------------------
(* ConfigStore: edits.  An edit batch is [section, params], params a dict  *)
(* of scalars.                                                             *)

Entry(section, params) == [section |-> section, params |-> params]

\* d.update(params)
RECURSIVE Update(_, _, _)
Update(d, params, i) ==
    IF i > Len(params) THEN d ELSE Update(Put(d, params[i]), params, i + 1)

\* One turn of apply_config_changes's loop.  config.setdefault(section, {})
\* returns what is there; .update on a scalar raises AttributeError.
ApplyEntry(config, entry) ==
    IF entry.section # ""
    THEN IF ~Has(config, entry.section)
         THEN [ok |-> TRUE,
               config |-> Append(config,
                   Section(entry.section,
                           Update(EmptyDict, entry.params, 1)))]
         ELSE LET section_dict == Get(config, entry.section)
              IN  IF section_dict.isdict
                  THEN [ok |-> TRUE,
                        config |-> Put(config,
                            Section(entry.section,
                                Update(section_dict.sub, entry.params, 1)))]
                  ELSE [ok |-> FALSE, config |-> config]
    ELSE [ok |-> TRUE, config |-> Update(config, entry.params, 1)]

RECURSIVE ApplyEntries(_, _, _)
ApplyEntries(config, entries, i) ==
    IF i > Len(entries) THEN [ok |-> TRUE, config |-> config]
    ELSE LET one == ApplyEntry(config, entries[i])
         IN  IF one.ok THEN ApplyEntries(one.config, entries, i + 1)
             ELSE one

\* apply_config_changes(entries) at time `now` on the override file `file`:
\* the file afterwards, and whether the call returned (ok) or raised.
apply_config_changes(file, entries, now) ==
    LET loaded == load_global_config(file)
    IN  IF ~loaded.ok THEN [ok |-> FALSE, file |-> file]
        ELSE LET edited == ApplyEntries(loaded.ret, entries, 1)
             IN  IF ~edited.ok THEN [ok |-> FALSE, file |-> file]
                 ELSE LET written == write_global_config(edited.config, now)
                      IN  IF written.ok
                          THEN [ok |-> TRUE, file |-> File(written.lines)]
                          ELSE [ok |-> FALSE, file |-> file]

---------------------------------------------------------------------------
(* The ConfigStore session: the shell calls load_active_config,            *)
(* load_global_config and apply_config_changes one at a time, and the      *)
(* operator may edit configs/global_hyper.toml by hand between calls.      *)

\* datetime.now().isoformat(): the instants a write may happen at
Times == {"t1", "t2"}

Zero == << "0" >>

Five == << "5" >>

\* The lines an operator types into global_hyper.toml.
HandLines ==
    { JunkLine, CommentLine("note"), TableLine("gpu"), TableLine("aux"),
      KvLine("gpu", Five), KvLine("aux", Zero), KvLine("batch_size", Five),
      KvLine("seed", << "h" >>) }

\* Longest hand-written file, in lines.
MaxHandLines == 2

RECURSIVE Texts(_, _)
Texts(alphabet, n) ==
    IF n = 0 THEN { << >> }
    ELSE LET shorter == Texts(alphabet, n - 1)
         IN  shorter \cup { Append(t, ln) : t \in shorter, ln \in alphabet }

HandTexts == Texts(HandLines, MaxHandLines)

\* The shipped base configuration: missing, or with a [gpu] section.
BaseFiles ==
    { Absent,
      File(<< KvLine("seed", Five), TableLine("gpu"),
              KvLine("batch_size", Zero), KvLine("seed", Five) >>) }

\* One-parameter edit batches.
Batches ==
    { Entry("", << Scalar("gpu", IntV(0)) >>),
      Entry("", << Scalar("gpu", IntV(5)) >>),
      Entry("", << Scalar("aux", StrV(<< "h" >>)) >>),
      Entry("gpu", << Scalar("batch_size", IntV(0)) >>),
      Entry("gpu", << Scalar("batch_size", IntV(5)) >>),
      Entry("gpu", << Scalar("seed", BoolV(TRUE)) >>),
      Entry("aux", << Scalar("batch_size", FloatV(5)) >>) }

\* The lists of edit batches a call is made with: none, one or two.
EntryLists ==
    { << >> } \cup { << a >> : a \in Batches }
              \cup { << a, b >> : a \in Batches, b \in Batches }

NoCall ==
    [op |-> "none", entries |-> << >>, before |-> Absent, ok |-> TRUE,
     ret |-> EmptyDict, base_data |-> EmptyDict]

NoProbe ==
    [fn |-> "none", data |-> << >>, first |-> << >>, back |-> << >>,
     second |-> << >>]

Init ==
    /\ base \in BaseFiles
    /\ override = Absent
    /\ experiment = Absent
    /\ pc = "idle"
    /\ config_data = << >>
    /\ call = NoCall
    /\ probe = NoProbe

\* The operator rewrites or deletes global_hyper.toml in an editor.
HandEdit ==
    /\ pc = "idle"
    /\ \E f \in {Absent} \cup {File(t) : t \in HandTexts} : override' = f
    /\ UNCHANGED <<base, experiment, pc, config_data, call, probe>>

\* apply_config_changes(entries)
ApplyConfigChanges ==
    /\ pc = "idle"
    /\ \E entries \in EntryLists, now \in Times :
         LET r == apply_config_changes(override, entries, now)
         IN  /\ override' = r.file
             /\ call' = [NoCall EXCEPT !.op = "apply", !.entries = entries,
                                       !.before = override, !.ok = r.ok]
    /\ pc' = "returned"
    /\ UNCHANGED <<base, experiment, config_data, probe>>

\* load_active_config()
LoadActiveConfig ==
    /\ pc = "idle"
    /\ LET r == load_active_config(base, override)
       IN  call' = [NoCall EXCEPT !.op = "load_active", !.before = override,
                                  !.ok = r.ok, !.ret = r.ret,
                                  !.base_data = r.base_data]
    /\ pc' = "returned"
    /\ UNCHANGED <<base, override, experiment, config_data, probe>>

\* load_global_config()
LoadGlobalConfig ==
    /\ pc = "idle"
    /\ LET r == load_global_config(override)
       IN  call' = [NoCall EXCEPT !.op = "load_global", !.before = override,
                                  !.ok = r.ok, !.ret = r.ret]
    /\ pc' = "returned"
    /\ UNCHANGED <<base, override, experiment, config_data, probe>>

\* The shell has used the call's outcome and is back at its menu.
Return ==
    /\ pc = "returned"
    /\ pc' = "idle"
    /\ call' = NoCall
    /\ UNCHANGED <<base, override, experiment, config_data, probe>>

Next ==
    \/ HandEdit
    \/ ApplyConfigChanges
    \/ LoadActiveConfig
    \/ LoadGlobalConfig
    \/ Return

Spec == Init /\ [][Next]_vars

---------------------------------------------------------------------------
(* The merge on its own: load_active_config over every pair of a base and  *)
(* an override file whose layers are built from two names, each missing, a *)
(* scalar or a section of up to two keys.                                  *)

KeysOf(d) == [i \in 1..Len(d) |-> d[i].key]

\* A layer as a file: its scalars, then each section under its header.
RECURSIVE SectionTexts(_)
SectionTexts(secs) ==
    IF secs = << >> THEN << >>
    ELSE << TableLine(Head(secs).key) >>
           \o KvLines(KeysOf(Head(secs).sub), Head(secs).sub)
           \o SectionTexts(Tail(secs))

LayerText(d) ==
    LET scalars == SelectSeq(d, LAMBDA e : ~e.isdict)
    IN  KvLines(KeysOf(scalars), scalars)
          \o SectionTexts(SelectSeq(d, LAMBDA e : e.isdict))

SubDicts ==
    { a \o b :
        a \in { << >>, << Scalar("batch_size", IntV(0)) >>,
                << Scalar("batch_size", IntV(5)) >> },
        b \in { << >>, << Scalar("seed", IntV(0)) >>,
                << Scalar("seed", IntV(5)) >> } }

NameStates(n) ==
    { << >>, << Scalar(n, IntV(0)) >>, << Scalar(n, IntV(5)) >> }
        \cup { << Section(n, sub) >> : sub \in SubDicts }

MergeLayers == { x \o y : x \in NameStates("gpu"), y \in NameStates("aux") }

MergeFiles == {Absent} \cup { File(LayerText(d)) : d \in MergeLayers }

InitMerge ==
    /\ base \in MergeFiles
    /\ override \in MergeFiles
    /\ experiment = Absent
    /\ pc = "idle"
    /\ config_data = << >>
    /\ call = NoCall
    /\ probe = NoProbe

NextMerge ==
    \/ LoadActiveConfig
    \/ Return

SpecMerge == InitMerge /\ [][NextMerge]_vars

\* The scalars of a layer with their paths: <<"", key, value>> at the top
\* level, <<section, key, value>> inside a section.
Leaves(d) ==
    { << "", d[i].key, d[i].val >> : i \in {j \in DOMAIN d : ~d[j].isdict} }
      \cup UNION { { << d[i].key, d[i].sub[j].key, d[i].sub[j].val >> :
                       j \in DOMAIN d[i].sub } :
                   i \in {j \in DOMAIN d : d[j].isdict} }

Paths(d) == { << l[1], l[2] >> : l \in Leaves(d) }

\* The layer a file holds (a missing file: the empty layer).
LayerOf(file) == _load_toml(file).data

Loaded == pc = "returned" /\ call.op = "load_active" /\ call.ok

\* C1: merging the override onto the result of merging it onto base gives
\* the same configuration as merging it once:
\* merge(base, merge(base, override)) == merge(base, override).
C1_MergeIdempotent ==
    Loaded => DictEq(_deep_merge(DeepCopy(LayerOf(base)).val, call.ret),
                     call.ret)

\* C1's case: base and override disagree on a value, and on what a name
\* is (a section in base, a scalar in the override).
C1_Witness ==
    /\ Loaded
    /\ \E b \in Leaves(LayerOf(base)), o \in Leaves(LayerOf(override)) :
         b[1] = o[1] /\ b[2] = o[2] /\ b[3] # o[3]
    /\ \E i \in DOMAIN LayerOf(base), j \in DOMAIN LayerOf(override) :
         /\ LayerOf(base)[i].key = LayerOf(override)[j].key
         /\ LayerOf(base)[i].isdict /\ LayerOf(base)[i].sub # << >>
         /\ ~LayerOf(override)[j].isdict

\* The top-level name a leaf lives under.
TopName(l) == IF l[1] = "" THEN l[2] ELSE l[1]

\* A base leaf whose top-level name the override holds as the other kind:
\* a scalar where base has the section, or a section where base has the
\* scalar.
Clashes(l, o) ==
    /\ Has(o, TopName(l))
    /\ Get(o, TopName(l)).isdict = (l[1] = "")

\* C4 as stated: load_active_config returns base with the override merged
\* onto it: every path of the override has the override's value, every
\* base path absent from the override keeps its base value, nothing else
\* is there, and the loaded base layer is left as it was.
C4_AbsentPathsKeepBase ==
    Loaded =>
      /\ Leaves(LayerOf(override)) \subseteq Leaves(call.ret)
      /\ \A l \in Leaves(LayerOf(base)) :
           << l[1], l[2] >> \notin Paths(LayerOf(override))
             => l \in Leaves(call.ret)
      /\ Leaves(call.ret)
           \subseteq Leaves(LayerOf(base)) \cup Leaves(LayerOf(override))
      /\ call.base_data = LayerOf(base)

\* C4 amended: as above, but a base path under a name that the override
\* holds as the other kind (scalar against section) is not kept: there the
\* override's entry replaces the base's entry whole.  A missing file on
\* either side is an empty layer and no error.
C4_MergedOntoBase ==
    /\ Loaded =>
         /\ Leaves(LayerOf(override)) \subseteq Leaves(call.ret)
         /\ \A l \in Leaves(LayerOf(base)) :
              /\ << l[1], l[2] >> \notin Paths(LayerOf(override))
              /\ ~Clashes(l, LayerOf(override))
              => l \in Leaves(call.ret)
         /\ \A l \in Leaves(LayerOf(base)) :
              Clashes(l, LayerOf(override))
                => Get(call.ret, TopName(l))
                     = Get(LayerOf(override), TopName(l))
         /\ Leaves(call.ret)
              \subseteq Leaves(LayerOf(base)) \cup Leaves(LayerOf(override))
         /\ call.base_data = LayerOf(base)
    /\ (pc = "returned" /\ call.op = "load_active"
          /\ (~base.exists \/ ParseToml(base.lines).ok)
          /\ (~override.exists \/ ParseToml(override.lines).ok))
         => /\ call.ok
            /\ ~base.exists => DictEq(call.ret, LayerOf(override))
            /\ ~override.exists => DictEq(call.ret, LayerOf(base))

\* C4's case: a section of base is merged key by key (one key kept, one
\* replaced), the override adds a path, and a name clashes.
C4_Witness ==
    /\ Loaded
    /\ \E b \in Leaves(LayerOf(base)), o \in Leaves(LayerOf(override)),
          a \in Leaves(LayerOf(override)) :
         /\ b[1] # "" /\ o[1] = b[1]
         /\ << b[1], b[2] >> \notin Paths(LayerOf(override))
         /\ b \in Leaves(call.ret)
         /\ << o[1], o[2] >> \in Paths(LayerOf(base))
         /\ o \notin Leaves(LayerOf(base))
         /\ << a[1], a[2] >> \notin Paths(LayerOf(base))
    /\ \E l \in Leaves(LayerOf(base)) : Clashes(l, LayerOf(override))

---------------------------------------------------------------------------
(* Properties of apply_config_changes, under Spec.                        *)

Applied == pc = "returned" /\ call.op = "apply"

\* The (section, key) pairs an edit batch names, and those a list names.
NamedBy(entry) == { << entry.section, k >> : k \in Keys(entry.params) }

Named(entries) == UNION { NamedBy(entries[i]) : i \in DOMAIN entries }

\* A file that exists and is not TOML.
Malformed(file) == file.exists /\ ~ParseToml(file.lines).ok

\* The merged configuration of two files, and whether loading it succeeds.
Active(baseFile, overrideFile) == load_active_config(baseFile, overrideFile)

\* Both batches in one call, in the order given.
OneCall(start, a, b) == apply_config_changes(start, << a, b >>, "t1")

\* One call per batch, in the order given.
TwoCalls(start, a, b) ==
    LET first  == apply_config_changes(start, << a >>, "t1")
        second == apply_config_changes(first.file, << b >>, "t2")
    IN  [ok |-> first.ok /\ second.ok, file |-> second.file]

\* Two outcomes agree: both calls completed, and they left the same
\* override layer and the same active configuration.
SameOutcome(x, y) ==
    /\ x.ok /\ y.ok
    /\ DictEq(LayerOf(x.file), LayerOf(y.file))
    /\ DictEq(Active(base, x.file).ret, Active(base, y.file).ret)

\* C2: two edit batches that touch disjoint (section, key) pairs, applied
\* to any starting override layer in either order, complete and yield the
\* same override layer and the same active configuration (whether the two
\* are given in one call or in one call each).
C2_DisjointBatchesCommute ==
    ( /\ Applied
      /\ Len(call.entries) = 2
      /\ NamedBy(call.entries[1]) \cap NamedBy(call.entries[2]) = {}
      /\ ~Malformed(call.before) )
    => LET a == call.entries[1]
           b == call.entries[2]
       IN  \/ SameOutcome(OneCall(call.before, a, b),
                          OneCall(call.before, b, a))
           \/ SameOutcome(TwoCalls(call.before, a, b),
                          TwoCalls(call.before, b, a))

\* C3: when two batches of one call set the same (section, key), the value
\* persisted in the override layer is the one from the later batch.
C3_LaterBatchWins ==
    ( /\ Applied
      /\ Len(call.entries) = 2
      /\ ~Malformed(call.before) )
    => \A p \in NamedBy(call.entries[1]) \cap NamedBy(call.entries[2]) :
         << p[1], p[2], Get(call.entries[2].params, p[2]).val >>
            \in Leaves(LayerOf(override))

\* C7: with a malformed override file, load_active_config,
\* load_global_config and apply_config_changes raise instead of going on
\* with an empty layer, and apply_config_changes leaves the file as it was.
C7_MalformedRaises ==
    ( /\ pc = "returned"
      /\ call.op \in {"apply", "load_active", "load_global"}
      /\ Malformed(call.before) )
    => ~call.ok /\ override = call.before

\* C7's case: apply_config_changes with a batch, on a malformed file.
C7_Witness ==
    /\ Applied
    /\ Malformed(call.before)
    /\ call.entries # << >>
    /\ override = call.before

\* C7's other case: the loads on a malformed file.
C7_WitnessLoad ==
    /\ pc = "returned"
    /\ call.op = "load_active"
    /\ Malformed(call.before)


\* One call of apply_config_changes on well-formed persisted text.
ApplyStep ==
    /\ pc = "idle" /\ pc' = "returned" /\ call'.op = "apply"
    /\ ~Malformed(override)

\* C8: after apply_config_changes(entries) every (section, key) that was in
\* the persisted override layer before the call and is not named by any
\* batch is still there with its previous value, every (section, key) that
\* is new or has a new value is named by a batch, and the base file is not
\* written.
C8_EditsFrame ==
    [][ ApplyStep =>
          /\ \A l \in Leaves(LayerOf(override)) :
                << l[1], l[2] >> \notin Named(call'.entries)
                    => l \in Leaves(LayerOf(override'))
          /\ \A l \in Leaves(LayerOf(override')) :
                l \notin Leaves(LayerOf(override))
                    => << l[1], l[2] >> \in Named(call'.entries)
          /\ base' = base ]_vars


---------------------------------------------------------------------------
(* Writing on its own: write_global_config on a layer, load_global_config  *)
(* of what it wrote, and write_global_config of what was read.  The layers *)
(* are dicts in every insertion order of up to MaxEntries entries: scalars *)
(* and sections under catalog and other names, keys whose catalog order    *)
(* and sorted order differ, empty sections, and a scalar under the name of *)
(* a catalog section.                                                      *)

MaxEntries == 3

WriteScalars ==
    { Scalar("seed", IntV(5)), Scalar("target_chromatic", IntV(0)),
      Scalar("aux", StrV(<< "h" >>)), Scalar("batch_size", FloatV(5)),
      Scalar("gpu", IntV(5)), Scalar("gpu", IntV(0)) }

WriteSubs ==
    { << >>,
      << Scalar("device_id", IntV(0)) >>,
      << Scalar("batch_size", IntV(5)), Scalar("device_id", IntV(0)) >>,
      << Scalar("device_id", IntV(0)), Scalar("batch_size", IntV(5)) >>,
      << Scalar("seed", BoolV(TRUE)), Scalar("aux", StrV(<< "h" >>)) >>,
      << Scalar("aux", StrV(<< "h" >>)), Scalar("seed", BoolV(TRUE)) >> }

WriteEntries ==
    WriteScalars
      \cup { Section(n, sub) : n \in {"gpu", "adp", "aux"}, sub \in WriteSubs }

\* The dicts of at most n entries, keys distinct.
WriteLayers(n) ==
    UNION { { d \in [1..m -> WriteEntries] :
                \A i, j \in 1..m : i # j => d[i].key # d[j].key } :
            m \in 0..n }

InitWrite ==
    /\ base = Absent
    /\ override = Absent
    /\ experiment = Absent
    /\ pc = "idle"
    /\ config_data = << >>
    /\ call = NoCall
    /\ \E data \in WriteLayers(MaxEntries) :
         probe = [NoProbe EXCEPT !.fn = "write", !.data = data]

\* write_global_config(data): the file is written unless the call raises.
WriteGlobalConfig ==
    /\ pc = "idle"
    /\ \E now \in Times :
         LET r == write_global_config(probe.data, now)
         IN  /\ override' = IF r.ok THEN File(r.lines) ELSE override
             /\ probe' = [probe EXCEPT !.first = r.lines]
             /\ pc' = IF r.ok THEN "written" ELSE "raised"
    /\ UNCHANGED <<base, experiment, config_data, call>>

\* load_global_config() of the file just written
ReadBack ==
    /\ pc = "written"
    /\ LET r == load_global_config(override)
       IN  /\ probe' = [probe EXCEPT !.back = r.ret]
           /\ pc' = IF r.ok THEN "read" ELSE "raised"
    /\ UNCHANGED <<base, override, experiment, config_data, call>>

\* write_global_config of the dict read back
WriteAgain ==
    /\ pc = "read"
    /\ \E now \in Times :
         LET r == write_global_config(probe.back, now)
         IN  /\ override' = IF r.ok THEN File(r.lines) ELSE override
             /\ probe' = [probe EXCEPT !.second = r.lines]
             /\ pc' = IF r.ok THEN "rewritten" ELSE "raised"
    /\ UNCHANGED <<base, experiment, config_data, call>>

NextWrite ==
    \/ WriteGlobalConfig
    \/ ReadBack
    \/ WriteAgain

SpecWrite == InitWrite /\ [][NextWrite]_vars


\* A text without its "# Last updated" line.
Body(lines) ==
    SelectSeq(lines,
              LAMBDA ln : ~(ln.k = "comment" /\ ln.key = "Last updated"))

\* The (section, key) pairs of a text's "key = value" lines, in line order.
RECURSIVE Emitted(_, _, _)
Emitted(lines, i, section) ==
    IF i > Len(lines) THEN << >>
    ELSE IF lines[i].k = "table" THEN Emitted(lines, i + 1, lines[i].key)
    ELSE IF lines[i].k = "kv"
         THEN << << section, lines[i].key >> >>
                 \o Emitted(lines, i + 1, section)
    ELSE Emitted(lines, i + 1, section)

\* Catalog-declared order, then the other names lexicographically.
CatalogFirst(order, names) ==
    SelectSeq(order, LAMBDA k : k \in names)
        \o Sorted(names \ Range(order))

\* The keys of one section of a layer in the documented order.
RECURSIVE ListedKeys(_, _, _)
ListedKeys(data, sections, i) ==
    IF i > Len(sections) THEN << >>
    ELSE LET sec  == sections[i]
             keys == CatalogFirst(SECTION_PARAM_ORDER(sec),
                                  Keys(Get(data, sec).sub))
         IN  [j \in 1..Len(keys) |-> << sec, keys[j] >>]
                 \o ListedKeys(data, sections, i + 1)

\* The (section, key) pairs of a layer in the documented order: top level,
\* catalog sections, other sections.
Listed(data) ==
    LET top  == CatalogFirst(SECTION_PARAM_ORDER(""),
                             {e.key : e \in {x \in Range(data) : ~x.isdict}})
        secs == CatalogFirst(SelectSeq(CatalogSections, LAMBDA c : c # ""),
                             {e.key : e \in {x \in Range(data) : x.isdict}})
    IN  [j \in 1..Len(top) |-> << "", top[j] >>]
            \o ListedKeys(data, secs, 1)

\* C5: writing a layer, reading the written text back and writing what was
\* read gives the text of the first write, the "# Last updated" line aside:
\* the round trip completes and the two texts are equal.
C5_RoundTrip ==
    (probe.fn = "write" /\ pc \in {"raised", "rewritten"})
        => pc = "rewritten" /\ Body(probe.second) = Body(probe.first)

\* C6: write_global_config writes every key of the layer exactly once, in
\* an order fixed by the layer's contents: top-level keys in catalog order
\* then lexicographically, catalog sections in catalog order and then the
\* other sections lexicographically, each section's keys by the same rule.
C6_DeterministicOrder ==
    (probe.fn = "write" /\ pc # "idle")
        => Emitted(probe.first, 1, "") = Listed(probe.data)


---------------------------------------------------------------------------
(* ExperimentBuilder: create_experiment collects one batch per completed   *)
(* category and saves them with save_to_toml.                              *)

\* The categories of the menu that are modelled, in TUNABLE_PARAMS order.
Categories == << "Top-Level", "CPU", "GPU", "Geodesic" >>

SECTION_MAP(category) ==
    CASE category = "Top-Level" -> ""
      [] category = "CPU"       -> "cpu"
      [] category = "GPU"       -> "gpu"
      [] category = "Geodesic"  -> "geodesic"

\* What edit_category collects when every prompt of the category is
\* answered: a value of the parameter's type for each parameter, in
\* TUNABLE_PARAMS order.
Answers(category) ==
    CASE category = "Top-Level" ->
           { << Scalar("target_chromatic", IntV(t)),
                Scalar("max_runtime_hours", FloatV(480)),
                Scalar("deterministic", BoolV(t = 5)),
                Scalar("seed", IntV(0)),
                Scalar("use_tda", BoolV(TRUE)),
                Scalar("use_pimc", BoolV(FALSE)) >> : t \in {0, 5} }
      [] category = "CPU" ->
           { << Scalar("threads", IntV(t)) >> : t \in {0, 5} }
      [] category = "GPU" ->
           { << Scalar("device_id", IntV(0)), Scalar("streams", IntV(t)),
                Scalar("batch_size", IntV(5)) >> : t \in {0, 5} }
      [] category = "Geodesic" ->
           { << Scalar("num_landmarks", IntV(5)), Scalar("metric", StrV(m)),
                Scalar("centrality_weight", FloatV(5)),
                Scalar("eccentricity_weight", FloatV(-5)) >> :
             m \in { << "h", "o", "p" >>, << "s" >> } }

\* save_to_toml's rendering of a value: str(value).lower() for a bool,
\* the characters between quotes for a str, f"{value}" otherwise.
SaveValueText(value) ==
    IF value.t = "bool" THEN (IF value.n = 1 THEN TrueText ELSE FalseText)
    ELSE IF value.t = "str" THEN << "\"" >> \o value.s \o << "\"" >>
    ELSE IF value.t = "int" THEN IntText(value.n)
    ELSE FloatText(value.n)

\* save_to_toml: by_section after one entry.  by_section is a dict in
\* insertion order from section name to a list of (key, value) items.
GroupAdd(by_section, entry) ==
    LET known == \E i \in DOMAIN by_section :
                    by_section[i].key = entry.section
        grown == IF known THEN by_section
                 ELSE Append(by_section,
                             [key |-> entry.section, items |-> << >>])
    IN  [i \in DOMAIN grown |->
            IF grown[i].key = entry.section
            THEN [grown[i] EXCEPT !.items = @ \o entry.params]
            ELSE grown[i]]

RECURSIVE GroupBySection(_, _, _)
GroupBySection(config_dict, i, by_section) ==
    IF i > Len(config_dict) THEN by_section
    ELSE GroupBySection(config_dict, i + 1,
                        GroupAdd(by_section, config_dict[i]))


\* The "key = value" lines of a list of items.
SaveKvLines(items) ==
    [i \in 1..Len(items) |->
        KvLine(items[i].key, SaveValueText(items[i].val))]

\* The order of "for section, params in by_section.items()" once the
\* top-level group is deleted, with the sections in catalog order instead.
SaveSections_Catalog(by_section) ==
    LET rest == SelectSeq(by_section, LAMBDA g : g.key # "")
        at(sec) == CHOOSE i \in DOMAIN rest : rest[i].key = sec
        named == SelectSeq(CatalogSections,
                           LAMBDA sec : \E i \in DOMAIN rest :
                                           rest[i].key = sec)
    IN  [i \in 1..Len(named) |-> rest[at(named[i])]]

\* save_to_toml: by_section.items() after del by_section[""]
SaveSections(by_section) == SelectSeq(by_section, LAMBDA g : g.key # "")

RECURSIVE SaveSectionLines(_, _)
SaveSectionLines(groups, i) ==
    IF i > Len(groups) THEN << >>
    ELSE << TableLine(groups[i].key) >> \o SaveKvLines(groups[i].items)
            \o << BlankLine >> \o SaveSectionLines(groups, i + 1)

\* save_to_toml(config_dict, output_file) at time `now`: the lines of the
\* file.  '\n'.join(lines) ends the text with the newline before the last
\* element of lines, which is always "".
save_to_toml(config_dict, now) ==
    LET header     == << CommentLine("PRISM Experiment Configuration"),
                         StampLine("Created", now), BlankLine >>
        by_section == GroupBySection(config_dict, 1, << >>)
        top        == SelectSeq(by_section, LAMBDA g : g.key = "")
        top_lines  == IF top # << >>
                      THEN SaveKvLines(top[1].items) \o << BlankLine >>
                      ELSE << >>
        lines      == header \o top_lines
                        \o SaveSectionLines(SaveSections(by_section), 1)
    IN  SubSeq(lines, 1, Len(lines) - 1)

\* get_current_value(active_config, section, key, default) raises
\* AttributeError when the active config holds a scalar under the name of
\* the section.
CurrentValueRaises(active_config, section) ==
    /\ section # ""
    /\ Has(active_config, section)
    /\ ~Get(active_config, section).isdict

\* create_experiment: "if config_data:" saves, with every category written.
ShouldSave_Always(data) == TRUE

\* create_experiment: "if config_data:"
ShouldSave(data) == data # << >>

\* Most batches one experiment is built from.
MaxBatches == 2

\* The override files an experiment is built beside.
ExperimentOverrides ==
    { Absent, File(<< JunkLine >>), File(<< KvLine("gpu", Five) >>),
      File(<< TableLine("gpu"), KvLine("batch_size", Five) >>) }

InitExperiment ==
    /\ base \in BaseFiles
    /\ override \in ExperimentOverrides
    /\ experiment \in {Absent, File(<< CommentLine("note") >>)}
    /\ pc = "idle"
    /\ config_data = << >>
    /\ call = NoCall
    /\ probe = NoProbe

\* create_experiment() up to its first category menu
CreateExperiment ==
    /\ pc = "idle"
    /\ pc' = "menu"
    /\ config_data' = << >>
    /\ call' = [NoCall EXCEPT !.op = "create_experiment",
                              !.before = experiment]
    /\ UNCHANGED <<base, override, experiment, probe>>

\* create_experiment after its loop, with the batches `data`: it saves and
\* reports "created", or reports "not saved".
Finish(data, now) ==
    /\ config_data' = data
    /\ IF ShouldSave(data)
       THEN /\ experiment' = File(save_to_toml(data, now))
            /\ pc' = "created"
       ELSE /\ experiment' = experiment
            /\ pc' = "not_saved"


\* configure_parameters(for_experiment=True), choice "0": it returns None
\* and create_experiment leaves its loop.
ChooseBack ==
    /\ pc = "menu"
    /\ \E now \in Times : Finish(config_data, now)
    /\ UNCHANGED <<base, override, call, probe>>

\* configure_parameters(for_experiment=True) with a category chosen:
\* load_active_config and the first get_current_value may raise; "back" at
\* a prompt returns None; otherwise the batch is appended and the user is
\* asked for another category.
EditCategory ==
    /\ pc = "menu"
    /\ \E c \in DOMAIN Categories, back \in BOOLEAN, another \in BOOLEAN,
          now \in Times :
         \E edited \in Answers(Categories[c]) :
           LET section       == SECTION_MAP(Categories[c])
               active_config == load_active_config(base, override)
               result        == Entry(section, edited)
           IN  IF \/ ~active_config.ok
                  \/ CurrentValueRaises(active_config.ret, section)
               THEN /\ pc' = "raised"
                    /\ UNCHANGED <<experiment, config_data>>
               ELSE IF back THEN Finish(config_data, now)
               ELSE IF another
               THEN /\ Len(config_data) + 1 < MaxBatches
                    /\ config_data' = Append(config_data, result)
                    /\ pc' = "menu"
                    /\ UNCHANGED experiment
               ELSE Finish(Append(config_data, result), now)
    /\ UNCHANGED <<base, override, call, probe>>

NextExperiment ==
    \/ CreateExperiment
    \/ ChooseBack
    \/ EditCategory

SpecExperiment == InitExperiment /\ [][NextExperiment]_vars

\* The sections of a list of batches in the order the batches first name
\* them.
RECURSIVE FirstNamed(_, _, _)
FirstNamed(data, i, acc) ==
    IF i > Len(data) THEN acc
    ELSE FirstNamed(data, i + 1,
                    IF data[i].section \in Range(acc) THEN acc
                    ELSE Append(acc, data[i].section))

\* The (section, key) pairs of a list of batches as entered.
RECURSIVE Entered(_, _)
Entered(data, i) ==
    IF i > Len(data) THEN << >>
    ELSE [j \in 1..Len(data[i].params) |->
             << data[i].section, data[i].params[j].key >>]
           \o Entered(data, i + 1)

RECURSIVE EnteredBySection(_, _, _)
EnteredBySection(data, sections, i) ==
    IF i > Len(sections) THEN << >>
    ELSE SelectSeq(Entered(data, 1), LAMBDA p : p[1] = sections[i])
           \o EnteredBySection(data, sections, i + 1)

\* The builder has returned to the main menu after its last prompt.
Ended == call.op = "create_experiment" /\ pc \in {"created", "not_saved"}

\* C9: when the experiment builder ends with no batch, no experiment file
\* is created or overwritten and the user is told the experiment was not
\* saved.
C9_NoBatchesNoFile ==
    (Ended /\ config_data = << >>)
        => pc = "not_saved" /\ experiment = call.before

\* The builder ended with no batch beside an experiment file of that name.
C9_Witness ==
    Ended /\ config_data = << >> /\ call.before.exists
          /\ experiment = call.before

\* C10: save_to_toml writes the keys in write_global_config's order: top
\* level first, sections in catalog order, keys in catalog order, whatever
\* the order the batches were entered in.  Stated for batches that name
\* different sections.
C10_SameOrderAsWrite ==
    ( /\ pc = "created"
      /\ \A i, j \in DOMAIN config_data :
            i # j => config_data[i].section # config_data[j].section )
        => Emitted(experiment.lines, 1, "")
             = Listed(ApplyEntries(EmptyDict, config_data, 1).config)

\* C10 as the code has it: top-level keys first, then the sections in the
\* order the batches first name them, and in each group the keys in the
\* order the batches gave them.
C10_EntryOrder ==
    pc = "created"
        => LET named == FirstNamed(config_data, 1, << >>)
               order == SelectSeq(named, LAMBDA sec : sec = "")
                          \o SelectSeq(named, LAMBDA sec : sec # "")
           IN  Emitted(experiment.lines, 1, "")
                 = EnteredBySection(config_data, order, 1)

\* An experiment saved from a GPU batch entered before a CPU or top-level
\* batch: entry order and catalog order differ.
C10_Witness ==
    /\ pc = "created"
    /\ Len(config_data) = 2
    /\ config_data[1].section = "gpu"
    /\ config_data[2].section \in {"", "cpu"}
    /\ experiment.lines[Len(experiment.lines)].k = "kv"


\* The section a line of a saved file is in: the name of the last table
\* line above it, "" above the first.
SectionAt(lines, i) ==
    LET tables == {j \in 1..(i - 1) : lines[j].k = "table"}
    IN  IF tables = {} THEN ""
        ELSE lines[CHOOSE j \in tables : \A h \in tables : h <= j].key

\* The value the last batch that sets (section, key) gives it.
LastSet(data, section, key) ==
    LET sets(i) == {j \in DOMAIN data[i].params : data[i].params[j].key = key}
        by      == {i \in DOMAIN data :
                      data[i].section = section /\ sets(i) # {}}
        last    == CHOOSE i \in by : \A h \in by : h <= i
    IN  data[last].params[CHOOSE j \in sets(last) : TRUE].val

\* C22. For any non-empty sequence of batches, two batches for the same
\* section and key included, the saved experiment file has each section
\* header at most once and each (section, key) assignment at most once,
\* with the value of the last batch that set it, and has no key that no
\* batch set.
C22_EachAssignmentOnce ==
    pc = "created" =>
      LET lines == experiment.lines
          kv    == {i \in DOMAIN lines : lines[i].k = "kv"}
          table == {i \in DOMAIN lines : lines[i].k = "table"}
          set   == Range(Entered(config_data, 1))
      IN  /\ \A i, j \in table : lines[i].key = lines[j].key => i = j
          /\ \A i, j \in kv :
                ( /\ lines[i].key = lines[j].key
                  /\ SectionAt(lines, i) = SectionAt(lines, j) ) => i = j
          /\ \A i \in kv :
                /\ << SectionAt(lines, i), lines[i].key >> \in set
                /\ lines[i].val =
                     SaveValueText(LastSet(config_data, SectionAt(lines, i),
                                           lines[i].key))

---------------------------------------------------------------------------
(* LogSummarizer (tools/summarize_wr_log.py).  A log line is a sequence of *)
(* tokens, the blank-separated pieces of its text: the fixed words of the  *)
(* patterns, numbers kept as their characters (digits and points), and     *)
(* other words.  A value that may be None is a record [has, v].            *)

None == [has |-> FALSE, v |-> 0]

Some(x) == [has |-> TRUE, v |-> x]

\* None where the value is a Python bool
NoneBool == [has |-> FALSE, v |-> FALSE]

Tok(kind, chars) == [k |-> kind, s |-> chars]

\* "INTERIM RESULT: colors =", "FINAL RESULT: colors =", "conflicts =",
\* "time =", "s", "[IMPROVE]", "->", "GPU-accelerated TDA", any other word
Word(kind) == Tok(kind, << >>)

\* the characters of a run of digits and points
Num(chars) == Tok("num", chars)

\* "TDA = true", "TDA = false", "TDA GPU = true", "TDA GPU = false"
Flag(kind, b) == Tok(kind, IF b THEN TrueText ELSE FalseText)

\* The longest run of digits a number starts with, and ends with.
RECURSIVE LeadingDigits(_)
LeadingDigits(chars) ==
    IF chars # << >> /\ IsDigit(Head(chars))
    THEN << Head(chars) >> \o LeadingDigits(Tail(chars))
    ELSE << >>

RECURSIVE TrailingDigits(_)
TrailingDigits(chars) ==
    IF chars # << >> /\ IsDigit(chars[Len(chars)])
    THEN Append(TrailingDigits(SubSeq(chars, 1, Len(chars) - 1)),
                chars[Len(chars)])
    ELSE << >>

\* int(text) of a \d+ capture: never raises
IntOf(chars) == NatOf(chars)

\* float(text) of a [\d.]+ capture, in tenths (the numbers of this model
\* have at most one digit after the point): ValueError (has = FALSE)
\* without a digit or with two points.
FloatOf(chars) ==
    LET dots == {i \in DOMAIN chars : chars[i] = "."}
    IN  IF dots = {}
        THEN IF AllDigits(chars) THEN Some(10 * NatOf(chars)) ELSE None
        ELSE LET d     == CHOOSE i \in dots : TRUE
                 whole == SubSeq(chars, 1, d - 1)
                 frac  == SubSeq(chars, d + 1, Len(chars))
             IN  IF /\ Cardinality(dots) = 1
                    /\ whole \o frac # << >>
                    /\ \A i \in DOMAIN chars : i # d => IsDigit(chars[i])
                    /\ Len(frac) <= 1
                 THEN Some(10 * NatOf(whole) + NatOf(frac))
                 ELSE None

\* The first of a set of positions of a line, or 0 when there is none.
First(positions) ==
    IF positions = {} THEN 0
    ELSE CHOOSE i \in positions : \A j \in positions : i <= j

Is(line, i, kind) == i \in DOMAIN line /\ line[i].k = kind

\* a number that \d+ can start in, and end in
DigitStart(line, i) == Is(line, i, "num") /\ LeadingDigits(line[i].s) # << >>

DigitEnd(line, i) == Is(line, i, "num") /\ TrailingDigits(line[i].s) # << >>

WholeDigits(line, i) == Is(line, i, "num") /\ AllDigits(line[i].s)

\* "time = <[\d.]+> s" at position i
TimeAt(line, i) ==
    Is(line, i, "time") /\ Is(line, i + 1, "num") /\ Is(line, i + 2, "s")


\* RE_TIME.search(line): the capture of the first "time = <[\d.]+> s"
RE_TIME(line) ==
    LET i == First({j \in DOMAIN line : TimeAt(line, j)})
    IN  IF i = 0 THEN [has |-> FALSE, t |-> << >>]
        ELSE [has |-> TRUE, t |-> line[i + 1].s]

\* RE_INTERIM.search(line): "INTERIM RESULT: colors = <\d+> time =
\* <[\d.]+> s"; the colours must be digits up to the word "time".
InterimAt(line, i) ==
    Is(line, i, "interim") /\ WholeDigits(line, i + 1) /\ TimeAt(line, i + 2)

RE_INTERIM(line) ==
    LET i == First({j \in DOMAIN line : InterimAt(line, j)})
    IN  IF i = 0 THEN [has |-> FALSE, c |-> << >>, t |-> << >>]
        ELSE [has |-> TRUE, c |-> line[i + 1].s, t |-> line[i + 3].s]

\* RE_IMPROVE.search(line): after "[IMPROVE]" the first digits that an
\* arrow and digits follow.  \d+ before the arrow takes the digits a number
\* ends with, \d+ after it the digits a number starts with.
ArrowAt(line, j) ==
    DigitEnd(line, j) /\ Is(line, j + 1, "arrow") /\ DigitStart(line, j + 2)

RE_IMPROVE(line) ==
    LET p == First({j \in DOMAIN line : Is(line, j, "improve")})
        a == First({j \in DOMAIN line : p # 0 /\ j > p /\ ArrowAt(line, j)})
    IN  IF a = 0 THEN [has |-> FALSE, old |-> << >>, new |-> << >>]
        ELSE [has |-> TRUE, old |-> TrailingDigits(line[a].s),
              new |-> LeadingDigits(line[a + 2].s)]

\* RE_FINAL.search(line): "FINAL RESULT: colors = <\d+> ... conflicts =
\* <\d+> ... time = <[\d.]+> s", each "..." as short as can be.
ConflictsAt(line, c) ==
    /\ Is(line, c, "conflicts") /\ DigitStart(line, c + 1)
    /\ \E t \in DOMAIN line : t > c + 1 /\ TimeAt(line, t)

FinalAt(line, f) ==
    /\ Is(line, f, "final") /\ DigitStart(line, f + 1)
    /\ \E c \in DOMAIN line : c > f + 1 /\ ConflictsAt(line, c)

RE_FINAL(line) ==
    LET f == First({j \in DOMAIN line : FinalAt(line, j)})
        c == First({j \in DOMAIN line : f # 0 /\ j > f + 1
                                       /\ ConflictsAt(line, j)})
        t == First({j \in DOMAIN line : c # 0 /\ j > c + 1 /\ TimeAt(line, j)})
    IN  IF f = 0
        THEN [has |-> FALSE, colors |-> << >>, conflicts |-> << >>,
              t |-> << >>]
        ELSE [has |-> TRUE, colors |-> LeadingDigits(line[f + 1].s),
              conflicts |-> LeadingDigits(line[c + 1].s),
              t |-> line[t + 1].s]

\* RE_TDA.search(line), RE_TDA_GPU.search(line): the first marker's word
RE_TDA(line) ==
    LET i == First({j \in DOMAIN line : Is(line, j, "tda")})
    IN  IF i = 0 THEN [has |-> FALSE, b |-> << >>]
        ELSE [has |-> TRUE, b |-> line[i].s]

RE_TDA_GPU(line) ==
    LET i == First({j \in DOMAIN line : Is(line, j, "tda_gpu")})
    IN  IF i = 0 THEN [has |-> FALSE, b |-> << >>]
        ELSE [has |-> TRUE, b |-> line[i].s]

\* RE_TDA_ACCEL.search(line)
RE_TDA_ACCEL(line) == \E i \in DOMAIN line : Is(line, i, "accel")


NoInterim == [has |-> FALSE, v |-> [colors |-> 0, time_s |-> 0, line_no |-> 0]]

NoFinal ==
    [has |-> FALSE,
     v |-> [colors |-> 0, conflicts |-> 0, time_s |-> 0, line_no |-> 0]]

\* parse_log's locals before the first line
ScanStart ==
    [interim |-> << >>, improvements |-> << >>, best_colors |-> None,
     best_time |-> None, first_interim |-> NoInterim,
     last_time_seen |-> None, interim_count |-> 0, final |-> NoFinal,
     tda |-> NoneBool, tda_gpu |-> NoneBool]

\* The bare time pattern's turn on a line.
ScanTime(st, line) ==
    LET m_time == RE_TIME(line)
    IN  IF m_time.has /\ FloatOf(m_time.t).has
        THEN [st EXCEPT !.last_time_seen = FloatOf(m_time.t)]
        ELSE st

\* The interim pattern's turn with the running best replaced on a tie.
ScanInterim_TieReplaces(st, line, i) ==
    LET m_interim == RE_INTERIM(line)
        c     == IntOf(m_interim.c)
        t     == FloatOf(m_interim.t).v
        entry == [colors |-> c, time_s |-> t, line_no |-> i]
        lower == ~st.best_colors.has \/ c <= st.best_colors.v
    IN  IF ~m_interim.has THEN st
        ELSE [st EXCEPT
                !.interim_count = @ + 1,
                !.last_time_seen = Some(t),
                !.interim = Append(@, entry),
                !.first_interim = IF @.has THEN @ ELSE Some(entry),
                !.best_colors = IF lower THEN Some(c) ELSE @,
                !.best_time = IF lower THEN Some(t) ELSE @]

\* The interim pattern's turn with first_interim set by every interim line.
ScanInterim_FirstReplaced(st, line, i) ==
    LET m_interim == RE_INTERIM(line)
        c     == IntOf(m_interim.c)
        t     == FloatOf(m_interim.t).v
        entry == [colors |-> c, time_s |-> t, line_no |-> i]
        lower == ~st.best_colors.has \/ c < st.best_colors.v
    IN  IF ~m_interim.has THEN st
        ELSE [st EXCEPT
                !.interim_count = @ + 1,
                !.last_time_seen = Some(t),
                !.interim = Append(@, entry),
                !.first_interim = Some(entry),
                !.best_colors = IF lower THEN Some(c) ELSE @,
                !.best_time = IF lower THEN Some(t) ELSE @]

\* The interim pattern's turn, its numbers parsed: line i (from 0).
ScanInterim(st, line, i) ==
    LET m_interim == RE_INTERIM(line)
        c     == IntOf(m_interim.c)
        t     == FloatOf(m_interim.t).v
        entry == [colors |-> c, time_s |-> t, line_no |-> i]
        lower == ~st.best_colors.has \/ c < st.best_colors.v
    IN  IF ~m_interim.has THEN st
        ELSE [st EXCEPT
                !.interim_count = @ + 1,
                !.last_time_seen = Some(t),
                !.interim = Append(@, entry),
                !.first_interim = IF @.has THEN @ ELSE Some(entry),
                !.best_colors = IF lower THEN Some(c) ELSE @,
                !.best_time = IF lower THEN Some(t) ELSE @]

\* The improvement pattern's turn with no time taken from earlier lines.
ScanImprove_NoBackfill(st, line, i) ==
    LET m_impr == RE_IMPROVE(line)
        old    == Some(IntOf(m_impr.old))
        new    == Some(IntOf(m_impr.new))
        m_t2   == RE_TIME(line)
        found  == IF m_t2.has THEN FloatOf(m_t2.t) ELSE None
        seen   == IF found.has THEN found ELSE st.last_time_seen
        lower  == new.has /\ (~st.best_colors.has \/ new.v < st.best_colors.v)
    IN  IF ~m_impr.has THEN st
        ELSE [st EXCEPT
                !.last_time_seen = seen,
                !.improvements =
                    Append(@, [old |-> old, new |-> new, time_s |-> found,
                               line_no |-> i]),
                !.best_colors = IF lower THEN new ELSE @,
                !.best_time = IF lower THEN found ELSE @]

\* The improvement pattern's turn.
ScanImprove(st, line, i) ==
    LET m_impr == RE_IMPROVE(line)
        old    == Some(IntOf(m_impr.old))
        new    == Some(IntOf(m_impr.new))
        m_t2   == RE_TIME(line)
        found  == IF m_t2.has THEN FloatOf(m_t2.t) ELSE None
        seen   == IF found.has THEN found ELSE st.last_time_seen
        t      == IF found.has THEN found ELSE seen
        lower  == new.has /\ (~st.best_colors.has \/ new.v < st.best_colors.v)
    IN  IF ~m_impr.has THEN st
        ELSE [st EXCEPT
                !.last_time_seen = seen,
                !.improvements =
                    Append(@, [old |-> old, new |-> new, time_s |-> t,
                               line_no |-> i]),
                !.best_colors = IF lower THEN new ELSE @,
                !.best_time = IF lower THEN t ELSE @]

\* The final-result pattern's turn: a capture that does not parse sets
\* final to None.
ScanFinal(st, line, i) ==
    LET m_final == RE_FINAL(line)
        time_s  == FloatOf(m_final.t)
    IN  IF ~m_final.has THEN st
        ELSE IF time_s.has
        THEN [st EXCEPT !.final =
                 Some([colors |-> IntOf(m_final.colors),
                       conflicts |-> IntOf(m_final.conflicts),
                       time_s |-> time_s.v, line_no |-> i])]
        ELSE [st EXCEPT !.final = NoFinal]

\* The TDA markers' turn; the forcing marker is tested last.
ScanFlags(st, line) ==
    LET m_tda     == RE_TDA(line)
        m_tda_gpu == RE_TDA_GPU(line)
        s1 == IF m_tda.has THEN [st EXCEPT !.tda = Some(m_tda.b = TrueText)]
              ELSE st
        s2 == IF m_tda_gpu.has
              THEN [s1 EXCEPT !.tda_gpu = Some(m_tda_gpu.b = TrueText)]
              ELSE s1
    IN  IF RE_TDA_ACCEL(line)
        THEN [s2 EXCEPT !.tda = Some(TRUE), !.tda_gpu = Some(TRUE)]
        ELSE s2

\* One turn of parse_log's loop.  When the interim pattern matches and its
\* time does not parse, `continue` leaves the rest of the line untested.
ScanLine(st, line, i) ==
    LET timed     == ScanTime(st, line)
        m_interim == RE_INTERIM(line)
    IN  IF m_interim.has /\ ~FloatOf(m_interim.t).has THEN timed
        ELSE ScanFlags(
               ScanFinal(
                 ScanImprove(ScanInterim(timed, line, i), line, i),
                 line, i),
               line)

\* parse_log: last_improve_time, the time of the last event that has one
LastImproveTime(improvements) ==
    LET timed == {j \in DOMAIN improvements : improvements[j].time_s.has}
    IN  IF timed = {} THEN None
        ELSE improvements[CHOOSE j \in timed : \A k \in timed : k <= j].time_s

\* improve_count with events that keep the colour count taken in.
ImproveCount_NonStrict(improvements) ==
    Cardinality({j \in DOMAIN improvements :
                   /\ improvements[j].new.has /\ improvements[j].old.has
                   /\ improvements[j].new.v <= improvements[j].old.v})

\* parse_log: summary["improve_count"]
ImproveCount(improvements) ==
    Cardinality({j \in DOMAIN improvements :
                   /\ improvements[j].new.has /\ improvements[j].old.has
                   /\ improvements[j].new.v < improvements[j].old.v})


\* Pieces of log lines.
Interim(colors, time) ==
    << Word("interim"), Num(colors), Word("time"), Num(time), Word("s") >>

Improve(old, new) == << Word("improve"), old, Word("arrow"), Num(new) >>

Time(time) == << Word("time"), Num(time), Word("s") >>

Final(colors, time) ==
    << Word("final"), Num(colors), Word("conflicts"), Num(<< "0" >>) >>
        \o Time(time)

Accel == << Word("accel") >>

\* Numbers of the logs, as text.
N80 == << "8", "0" >>

N81 == << "8", "1" >>

N83 == << "8", "3" >>

N85 == << "8", "5" >>

N10 == << "1", "0" >>

N12p5 == << "1", "2", ".", "5" >>

\* "1.2.3" is no float
NBad == << "1", ".", "2", ".", "3" >>

\* The lines a log is made of: interim results, improvements with and
\* without a time, final results, TDA markers, bare times, lines with a
\* number that does not parse, and lines that carry two or three patterns.
LogLines ==
    { Interim(N80, N10), Interim(N80, Five), Interim(N83, N12p5),
      Interim(N80, NBad) \o Accel,
      Interim(N80, NBad) \o Improve(Num(N85), N81),
      Interim(N85, Five) \o Improve(Num(N85), N80),
      Improve(Num(N85), N83), Improve(Num(N83), N83) \o Time(N12p5),
      Improve(Num(N83), N81) \o Time(NBad),
      Improve(Word("word"), N81) \o Time(N12p5),
      Improve(Num(N12p5), N85),
      Final(N83, N10), Final(N80, NBad),
      Final(N81, Five) \o Interim(N83, NBad),
      Accel, << Flag("tda", FALSE) >>, << Flag("tda_gpu", TRUE) >>,
      << Flag("tda", FALSE), Flag("tda_gpu", FALSE) >> \o Accel,
      Time(Five), << Word("word") >> }

\* Longest log, in lines.
MaxLogLines == 3

RECURSIVE Logs(_)
Logs(n) ==
    IF n = 0 THEN { << >> }
    ELSE LET shorter == Logs(n - 1)
         IN  shorter \cup { Append(l, ln) : l \in shorter, ln \in LogLines }

\* parse_log(path) with the file read: no line scanned yet.
InitLog ==
    /\ base = Absent
    /\ override = Absent
    /\ experiment = Absent
    /\ pc = "scan"
    /\ config_data = << >>
    /\ call = NoCall
    /\ \E lines \in Logs(MaxLogLines) :
         probe = [fn |-> "parse_log", lines |-> lines, i |-> 0,
                  st |-> ScanStart, last_improve_time_s |-> None,
                  improve_count |-> 0]

\* One line of "for i, line in enumerate(lines)".
Scan ==
    /\ pc = "scan"
    /\ probe.i < Len(probe.lines)
    /\ probe' = [probe EXCEPT
                   !.i = @ + 1,
                   !.st = ScanLine(@, probe.lines[probe.i + 1], probe.i)]
    /\ UNCHANGED <<base, override, experiment, pc, config_data, call>>

\* After the loop: the summary is put together and returned.
Summarize ==
    /\ pc = "scan"
    /\ probe.i = Len(probe.lines)
    /\ probe' = [probe EXCEPT
                   !.last_improve_time_s =
                       LastImproveTime(probe.st.improvements),
                   !.improve_count = ImproveCount(probe.st.improvements)]
    /\ pc' = "summarized"
    /\ UNCHANGED <<base, override, experiment, config_data, call>>

NextLog ==
    \/ Scan
    \/ Summarize

SpecLog == InitLog /\ [][NextLog]_vars


RECURSIVE ScanFrom(_, _, _)
ScanFrom(st, lines, i) ==
    IF i >= Len(lines) THEN st
    ELSE ScanFrom(ScanLine(st, lines[i + 1], i), lines, i + 1)

NoBest == [has |-> FALSE, v |-> [colors |-> 0, time_s |-> None]]

\* parse_log: the summary dict of the locals `st`
Summary(st) ==
    [first_interim |-> st.first_interim,
     best |-> IF st.best_colors.has
              THEN Some([colors |-> st.best_colors.v,
                         time_s |-> st.best_time])
              ELSE NoBest,
     interim_count |-> st.interim_count,
     improve_events |-> st.improvements,
     improve_count |-> ImproveCount(st.improvements),
     last_improve_time_s |-> LastImproveTime(st.improvements),
     final |-> st.final,
     tda |-> st.tda,
     tda_gpu |-> st.tda_gpu]

\* parse_log(path) on a file that holds `lines`
parse_log(lines) == Summary(ScanFrom(ScanStart, lines, 0))


---------------------------------------------------------------------------
(* Properties of the log scan, under SpecLog.                              *)

\* The scan's locals after the lines processed so far.
Scanned == probe.fn = "parse_log"

\* The recorded events that carry a colour count, in the order they were
\* recorded: on one line the interim event comes before the improve event.
ColourEvents(st) ==
    { [line_no |-> st.interim[j].line_no, ord |-> 0,
       colors |-> st.interim[j].colors,
       time_s |-> Some(st.interim[j].time_s)] : j \in DOMAIN st.interim }
      \cup
    { [line_no |-> st.improvements[j].line_no, ord |-> 1,
       colors |-> st.improvements[j].new.v,
       time_s |-> st.improvements[j].time_s] :
      j \in {k \in DOMAIN st.improvements : st.improvements[k].new.has} }

Before(e, f) ==
    e.line_no < f.line_no \/ (e.line_no = f.line_no /\ e.ord < f.ord)

\* C11: after every processed line the running best is the least colour
\* count of all interim and improve events so far, with the time of the
\* earliest event that reached it (a later event with the same count does
\* not replace it); there is no best exactly when there is no such event.
C11_BestIsEarliestMinimum ==
    Scanned =>
      LET st     == probe.st
          events == ColourEvents(st)
      IN  IF events = {} THEN ~st.best_colors.has
          ELSE \E e \in events :
                 /\ \A f \in events : e.colors <= f.colors
                 /\ \A f \in events : f.colors = e.colors /\ f # e
                                         => Before(e, f)
                 /\ st.best_colors = Some(e.colors)
                 /\ st.best_time = e.time_s

\* Two interim events with the same colour count and different times have
\* been scanned, and the best has the time of the first.
C11_Witness ==
    /\ Scanned
    /\ Len(probe.st.interim) = 2
    /\ probe.st.interim[1].colors = probe.st.interim[2].colors
    /\ probe.st.interim[1].time_s # probe.st.interim[2].time_s
    /\ probe.st.best_time = Some(probe.st.interim[1].time_s)


\* parse_log has returned its summary.
Summarized == probe.fn = "parse_log" /\ pc = "summarized"

\* The strict decreases among the first n events.
RECURSIVE Decreases(_, _)
Decreases(events, n) ==
    IF n = 0 THEN 0
    ELSE Decreases(events, n - 1)
           + (IF /\ events[n].old.has /\ events[n].new.has
                 /\ events[n].new.v < events[n].old.v
              THEN 1 ELSE 0)

\* C12: improve_count is the number of recorded improve events whose old
\* and new are both present with new < old; events that keep or raise the
\* colour count stay in improve_events and are not counted.
C12_CountsStrictDecreases ==
    Summarized =>
        probe.improve_count
            = Decreases(probe.st.improvements, Len(probe.st.improvements))

\* Three events, one of them with new = old, and a count of two.
C12_Witness ==
    /\ Summarized
    /\ Len(probe.st.improvements) = 3
    /\ \E j \in 1..3 : probe.st.improvements[j].new
                          = probe.st.improvements[j].old
    /\ probe.improve_count = 2


\* The line processed last, and the locals before it was processed.
LastLine == probe.lines[probe.i]

BeforeLast ==
    ScanFrom(ScanStart, SubSeq(probe.lines, 1, probe.i - 1), 0)

\* The line's text holds the marker "GPU-accelerated TDA".
HasAccel(line) == \E j \in DOMAIN line : line[j].k = "accel"

\* The flag a plain marker of `kind` on the line gives, from `was`.
PlainFlag(line, kind, was) ==
    IF \E j \in DOMAIN line : line[j].k = kind
    THEN LET j == First({k \in DOMAIN line : line[k].k = kind})
         IN  Some(line[j].s = TrueText)
    ELSE was

\* C13: right after a line with the "GPU-accelerated TDA" marker both tda
\* and tda_gpu are true, whatever plain markers came before or stand on
\* that line; a line without it sets each flag from its own plain marker
\* and leaves the other as it was.
C13_ForcedTdaWins ==
    (Scanned /\ probe.i > 0) =>
        IF HasAccel(LastLine)
        THEN probe.st.tda = Some(TRUE) /\ probe.st.tda_gpu = Some(TRUE)
        ELSE /\ probe.st.tda = PlainFlag(LastLine, "tda", BeforeLast.tda)
             /\ probe.st.tda_gpu
                  = PlainFlag(LastLine, "tda_gpu", BeforeLast.tda_gpu)


\* "[IMPROVE] <old> -> <new>" with digits for new, at position p: what
\* stands for old may be anything.
ImproveLineAt(line, p) ==
    /\ Is(line, p, "improve") /\ Is(line, p + 2, "arrow")
    /\ WholeDigits(line, p + 3)

\* The improve events recorded for line i (from 0).
EventsOf(st, i) ==
    { st.improvements[j] :
        j \in {k \in DOMAIN st.improvements :
                 st.improvements[k].line_no = i} }

\* C14: an [IMPROVE] line whose old value is no number still gives an
\* improve event, with old absent and new as written (for "[IMPROVE] abc ->
\* 81 time = 12.5 s": new = 81, time_s = 12.5); a numeric old is kept.
C14_PartialImprove ==
    (Scanned /\ probe.i > 0) =>
        \A p \in DOMAIN LastLine :
            ImproveLineAt(LastLine, p) =>
                \E ev \in EventsOf(probe.st, probe.i - 1) :
                    /\ ev.new = Some(IntOf(LastLine[p + 3].s))
                    /\ ev.old = IF WholeDigits(LastLine, p + 1)
                                THEN Some(IntOf(LastLine[p + 1].s))
                                ELSE None


\* A FINAL RESULT line whose three captures parse.
FullFinal(line) == RE_FINAL(line).has /\ FloatOf(RE_FINAL(line).t).has

\* C15: the final event is that of the last FINAL RESULT line so far whose
\* colors, conflicts and time all parsed; a later FINAL RESULT line with a
\* capture that does not parse neither erases nor replaces it.
C15_LastFullFinalWins ==
    Scanned =>
        LET full == {j \in 1..probe.i : FullFinal(probe.lines[j])}
        IN  IF full = {} THEN ~probe.st.final.has
            ELSE LET j == CHOOSE k \in full : \A l \in full : l <= k
                     m == RE_FINAL(probe.lines[j])
                 IN  probe.st.final
                       = Some([colors |-> IntOf(m.colors),
                               conflicts |-> IntOf(m.conflicts),
                               time_s |-> FloatOf(m.t).v,
                               line_no |-> j - 1])


\* C16: every pattern is tested on every line and every match is applied:
\* right after a line, its improve event is recorded, its fully parsed
\* final event is the final, and its TDA markers have set the flags,
\* whether or not the line matches the interim pattern and whether or not
\* the interim numbers parse.
C16_EveryMatchApplied ==
    (Scanned /\ probe.i > 0) =>
        /\ RE_IMPROVE(LastLine).has
              => EventsOf(probe.st, probe.i - 1) # {}
        /\ FullFinal(LastLine)
              => /\ probe.st.final.has
                 /\ probe.st.final.v.line_no = probe.i - 1
        /\ probe.st.tda
              = IF HasAccel(LastLine) THEN Some(TRUE)
                ELSE PlainFlag(LastLine, "tda", BeforeLast.tda)
        /\ probe.st.tda_gpu
              = IF HasAccel(LastLine) THEN Some(TRUE)
                ELSE PlainFlag(LastLine, "tda_gpu", BeforeLast.tda_gpu)


\* The time a line shows by the bare time pattern, else by its interim
\* result.
TimeOn(line) ==
    LET m == RE_TIME(line)
        n == RE_INTERIM(line)
    IN  IF m.has /\ FloatOf(m.t).has THEN FloatOf(m.t)
        ELSE IF n.has /\ FloatOf(n.t).has THEN FloatOf(n.t)
        ELSE None

\* The time a line leaves as the most recent one: that of its interim
\* result, else that of the bare time pattern.
TimeLeftBy(line) ==
    LET m == RE_TIME(line)
        n == RE_INTERIM(line)
    IN  IF n.has /\ FloatOf(n.t).has THEN FloatOf(n.t)
        ELSE IF m.has /\ FloatOf(m.t).has THEN FloatOf(m.t)
        ELSE None

\* The most recent time seen on the first n lines.
RECURSIVE MostRecentTime(_, _)
MostRecentTime(lines, n) ==
    IF n = 0 THEN None
    ELSE IF TimeLeftBy(lines[n]).has THEN TimeLeftBy(lines[n])
    ELSE MostRecentTime(lines, n - 1)

\* The time of the last of the first n events that has one.
RECURSIVE LastKnownTime(_, _)
LastKnownTime(events, n) ==
    IF n = 0 THEN None
    ELSE IF events[n].time_s.has THEN events[n].time_s
    ELSE LastKnownTime(events, n - 1)

\* C20: an improve event has the time found on its own line if there is
\* one, otherwise the most recent time seen on an earlier line, and no
\* time only when none has been seen; last_improve_time_s is the time of
\* the last improve event that has one.
C20_ImproveTimes ==
    Scanned =>
        /\ \A j \in DOMAIN probe.st.improvements :
              LET ev   == probe.st.improvements[j]
                  line == probe.lines[ev.line_no + 1]
              IN  ev.time_s = IF TimeOn(line).has THEN TimeOn(line)
                              ELSE MostRecentTime(probe.lines, ev.line_no)
        /\ pc = "summarized"
              => probe.last_improve_time_s
                   = LastKnownTime(probe.st.improvements,
                                   Len(probe.st.improvements))

\* An improve event without a time on its line has taken the time of an
\* earlier line, and it is the last improve time of the summary.
C20_Witness ==
    /\ Summarized
    /\ \E j \in DOMAIN probe.st.improvements :
          LET ev == probe.st.improvements[j]
          IN  /\ ~TimeOn(probe.lines[ev.line_no + 1]).has
              /\ ev.time_s.has
              /\ probe.last_improve_time_s = ev.time_s

\* The first interim event is there exactly when interim lines were counted,
\* it is the first one recorded, and the best is not above it.
FirstInterimKept ==
    LET st == probe.st
    IN  /\ st.first_interim.has <=> st.interim_count > 0
        /\ st.interim_count = Len(st.interim)
        /\ st.first_interim.has =>
              /\ st.first_interim.v = st.interim[1]
              /\ Summary(st).best.has
              /\ Summary(st).best.v.colors <= st.first_interim.v.colors

\* C21. After every processed line of the log scan, first_interim is
\* present exactly when interim_count > 0; once set, no later line replaces
\* it; and whenever it is present, best is present with
\* best.colors <= first_interim.colors.
C21_FirstInterimInvariant ==
    /\ [](Scanned => FirstInterimKept)
    /\ [][(Scanned /\ probe.st.first_interim.has) =>
            probe'.st.first_interim = probe.st.first_interim]_vars

\* Two interim lines were counted, and the later one lowered the best
\* below the first.
C21_Witness ==
    /\ Scanned
    /\ probe.st.interim_count >= 2
    /\ probe.st.first_interim.has
    /\ probe.st.best_colors.v < probe.st.first_interim.v.colors
    /\ probe.st.interim[2] # probe.st.first_interim.v


---------------------------------------------------------------------------
(* summarize_wr_log.py as a program: infer_seed_profile, the CSV row of a  *)
(* summary, append_csv_row and main.  Paths and cells are texts (sequences *)
(* of characters); the values of a CSV row are Python scalars.             *)

NoText == [has |-> FALSE, v |-> << >>]

\* The position of the last "/" of a path, or 0.
LastSlash(path) ==
    LET at == {i \in DOMAIN path : path[i] = "/"}
    IN  IF at = {} THEN 0 ELSE CHOOSE i \in at : \A j \in at : j <= i

\* os.path.basename
basename(path) == SubSeq(path, LastSlash(path) + 1, Len(path))

RECURSIVE RStripSlash(_)
RStripSlash(path) ==
    IF path # << >> /\ path[Len(path)] = "/"
    THEN RStripSlash(SubSeq(path, 1, Len(path) - 1))
    ELSE path

\* os.path.dirname: "" for a path without a directory part
dirname(path) ==
    LET head == SubSeq(path, 1, LastSlash(path))
    IN  IF \E i \in DOMAIN head : head[i] # "/"
        THEN RStripSlash(head) ELSE head

\* `word in text`, and the places where it starts
StartsAt(text, i, word) ==
    i + Len(word) - 1 <= Len(text) /\ SubSeq(text, i, i + Len(word) - 1) = word

SeedWord == << "s", "e", "e", "d", "_" >>

AggrWord == << "a", "g", "g", "r" >>

AggrText == [has |-> TRUE, v |-> AggrWord]

RegularText == [has |-> TRUE, v |-> << "r", "e", "g", "u", "l", "a", "r" >>]

\* infer_seed_profile(base_config): (seed, profile)
infer_seed_profile(base_config) ==
    IF base_config = << >> THEN [seed |-> None, profile |-> NoText]
    ELSE LET name == basename(base_config)
             m    == First({i \in DOMAIN name :
                              /\ StartsAt(name, i, SeedWord)
                              /\ i + 5 \in DOMAIN name
                              /\ IsDigit(name[i + 5])})
         IN  [seed |-> IF m = 0 THEN None
                       ELSE Some(IntOf(LeadingDigits(
                                SubSeq(name, m + 5, Len(name))))),
              profile |-> IF \E i \in DOMAIN name : StartsAt(name, i, AggrWord)
                          THEN AggrText ELSE RegularText]

\* str(flag).lower()
LowerBool(b) == IF b THEN TrueText ELSE FalseText

\* main: csv_row, from the arguments and the summary
csv_row(args, summary) ==
    LET sp    == infer_seed_profile(args.base_config)
        first == summary.first_interim
        best  == summary.best
        final == summary.final
    IN  [seed |-> IF sp.seed.has THEN IntV(sp.seed.v) ELSE StrV(<< >>),
         profile |-> StrV(sp.profile.v),
         base_config |-> StrV(args.base_config),
         log_file |-> StrV(args.log),
         first_colors |-> IF first.has THEN IntV(first.v.colors)
                          ELSE StrV(<< >>),
         first_time_s |-> IF first.has THEN FloatV(first.v.time_s)
                          ELSE StrV(<< >>),
         best_colors |-> IF best.has THEN IntV(best.v.colors) ELSE StrV(<< >>),
         best_time_s |-> IF ~best.has THEN StrV(<< >>)
                         ELSE IF best.v.time_s.has
                              THEN FloatV(best.v.time_s.v) ELSE NoVal,
         improve_events |-> IntV(summary.improve_count),
         last_improve_time_s |-> IF summary.last_improve_time_s.has
                                 THEN FloatV(summary.last_improve_time_s.v)
                                 ELSE StrV(<< >>),
         tda |-> IF summary.tda.has THEN StrV(LowerBool(summary.tda.v))
                 ELSE StrV(<< >>),
         tda_gpu |-> IF summary.tda_gpu.has
                     THEN StrV(LowerBool(summary.tda_gpu.v)) ELSE StrV(<< >>),
         interim_count |-> IntV(summary.interim_count),
         final_colors |-> IF final.has THEN IntV(final.v.colors)
                          ELSE StrV(<< >>),
         final_conflicts |-> IF final.has THEN IntV(final.v.conflicts)
                             ELSE StrV(<< >>),
         final_time_s |-> IF final.has THEN FloatV(final.v.time_s)
                          ELSE StrV(<< >>)]

\* append_csv_row: the columns, in order
fields ==
    << "seed", "profile", "base_config", "log_file",
       "first_colors", "first_time_s", "best_colors", "best_time_s",
       "improve_events", "last_improve_time_s", "tda", "tda_gpu",
       "interim_count", "final_colors", "final_conflicts", "final_time_s" >>

NoneText == << "N", "o", "n", "e" >>

\* The text str() gives a value: "None" for None.
CsvCell_Str(value) ==
    CASE value.t = "none"  -> NoneText
      [] value.t = "int"   -> IntText(value.n)
      [] value.t = "float" -> FloatText(value.n)
      [] OTHER             -> value.s

\* The text csv.writer gives a value: "" for None, str() for a number.
CsvCell(value) ==
    CASE value.t = "none"  -> << >>
      [] value.t = "int"   -> IntText(value.n)
      [] value.t = "float" -> FloatText(value.n)
      [] OTHER             -> value.s

\* w.writeheader(): a cell per column name
HeaderRow == [i \in DOMAIN fields |-> << fields[i] >>]

\* w.writerow({k: row.get(k, "") for k in fields})
DataRow(row) ==
    [i \in DOMAIN fields |->
        CsvCell(IF fields[i] \in DOMAIN row THEN row[fields[i]]
                ELSE StrV(<< >>))]

\* append_csv_row(csv_path, row) on the file at csv_path: whether it raised
\* (os.makedirs("") is a FileNotFoundError) and the file afterwards.
append_csv_row(file, csv_path, row) ==
    IF dirname(csv_path) = << >>
    THEN [raised |-> TRUE, file |-> file]
    ELSE LET exists == file.exists /\ file.lines # << >>
             header == IF exists THEN << >> ELSE << HeaderRow >>
         IN  [raised |-> FALSE,
              file |-> File(file.lines \o header \o << DataRow(row) >>)]

\* open(path) and f.readlines(): the lines, or the failure that any error of
\* opening or reading is (a missing file, a directory, no permission)
ReadLog_EmptyOnFailure(log) ==
    [ok |-> TRUE, lines |-> IF log.readable THEN log.lines ELSE << >>]

ReadLog(log) ==
    IF log.readable THEN [ok |-> TRUE, lines |-> log.lines]
    ELSE [ok |-> FALSE, lines |-> << >>]

\* json.dump's argument in main
JsonSummary(args, summary) ==
    LET sp == infer_seed_profile(args.base_config)
    IN  [meta |-> [log_file |-> args.log, base_config |-> args.base_config,
                   seed |-> sp.seed, profile |-> sp.profile],
         summary |-> summary]

NoSummary == [has |-> FALSE, v |-> Summary(ScanStart)]

\* Paths of the command line.
LogPath == << "r", "u", "n", ".", "l", "o", "g" >>

BaseConfigs ==
    { << >>,
      << "c", "f", "g", "/", "s", "e", "e", "d", "_", "4", "2", "_",
         "a", "g", "g", "r", ".", "t", "o", "m", "l" >>,
      << "a", "g", "g", "r", "/", "b", "a", "s", "e", ".", "t", "o", "m", "l" >> }

CsvPaths ==
    { << >>, << "s", ".", "c", "s", "v" >>,
      << "o", "u", "t", "/", "s", ".", "c", "s", "v" >> }

JsonPaths ==
    { << >>, << "s", ".", "j", "s", "o", "n" >>,
      << "o", "u", "t", "/", "s", ".", "j", "s", "o", "n" >> }

\* The log files of the runs: an empty log, a best that comes from an
\* improvement without any time, a log with every kind of line, and logs
\* with flags and with an improvement that takes an earlier time.
Unreadable == [readable |-> FALSE, lines |-> << >>]

MainLogs ==
    { Unreadable } \cup
    { [readable |-> TRUE, lines |-> l] :
        l \in { << >>,
                << Improve(Num(N85), N81) >>,
                << Interim(N80, N10), Final(N83, N10), Accel >>,
                << Improve(Num(N85), N83) \o Time(N12p5),
                   << Flag("tda", FALSE) >> >>,
                << Interim(N83, N12p5), Improve(Num(N83), N81) >> } }

\* A row some earlier run left in the CSV file.
EarlierRow == DataRow([log_file |-> StrV(LogPath), improve_events |-> IntV(0)])

CsvFiles == { Absent, File(<< >>), File(<< HeaderRow, EarlierRow >>) }

\* Runs of the summarizer on the same files.
MaxRuns == 2

Running == -1

InitMain ==
    /\ base = Absent
    /\ override = Absent
    /\ experiment = Absent
    /\ pc = "parse"
    /\ config_data = << >>
    /\ call = NoCall
    /\ \E log \in MainLogs, b \in BaseConfigs, c \in CsvPaths,
          j \in JsonPaths, f \in CsvFiles :
         probe = [fn |-> "main", log |-> log,
                  args |-> [log |-> LogPath, base_config |-> b,
                            csv_append |-> c, json_out |-> j],
                  summary |-> NoSummary, csv |-> f, json |-> Absent,
                  csv0 |-> f, calls |-> << >>,
                  start |-> [csv |-> f, json |-> Absent],
                  exit |-> Running, runs |-> 1]

\* summary = parse_log(args.log): sys.exit(2) when the log cannot be read
MainParse ==
    /\ pc = "parse"
    /\ LET read == ReadLog(probe.log)
       IN  IF read.ok
           THEN /\ probe' = [probe EXCEPT
                               !.summary = Some(parse_log(read.lines))]
                /\ pc' = "csv"
           ELSE /\ probe' = [probe EXCEPT !.exit = 2]
                /\ pc' = "exit"
    /\ UNCHANGED <<base, override, experiment, config_data, call>>

\* if args.csv_append: append_csv_row(args.csv_append, csv_row); an
\* exception that nothing catches ends the run with exit code 1
MainCsv ==
    /\ pc = "csv"
    /\ LET row == csv_row(probe.args, probe.summary.v)
           res == append_csv_row(probe.csv, probe.args.csv_append, row)
       IN  IF probe.args.csv_append = << >>
           THEN /\ pc' = "json"
                /\ probe' = probe
           ELSE IF res.raised
           THEN /\ pc' = "exit"
                /\ probe' = [probe EXCEPT !.calls = Append(@, row),
                                          !.exit = 1]
           ELSE /\ pc' = "json"
                /\ probe' = [probe EXCEPT !.calls = Append(@, row),
                                          !.csv = res.file]
    /\ UNCHANGED <<base, override, experiment, config_data, call>>

\* if args.json_out: os.makedirs(dirname), open(..., 'w'), json.dump; then
\* main returns
MainJson ==
    /\ pc = "json"
    /\ pc' = "exit"
    /\ probe' =
         IF probe.args.json_out = << >> THEN [probe EXCEPT !.exit = 0]
         ELSE IF dirname(probe.args.json_out) = << >>
         THEN [probe EXCEPT !.exit = 1]
         ELSE [probe EXCEPT
                 !.json = File(<< JsonSummary(probe.args, probe.summary.v) >>),
                 !.exit = 0]
    /\ UNCHANGED <<base, override, experiment, config_data, call>>

\* The summarizer is run again, with the same arguments, on the next log.
MainAgain ==
    /\ pc = "exit"
    /\ probe.runs < MaxRuns
    /\ pc' = "parse"
    /\ \E log \in MainLogs :
         probe' = [probe EXCEPT !.log = log, !.summary = NoSummary,
                                !.start = [csv |-> probe.csv,
                                           json |-> probe.json],
                                !.exit = Running, !.runs = @ + 1]
    /\ UNCHANGED <<base, override, experiment, config_data, call>>

NextMain == MainParse \/ MainCsv \/ MainJson \/ MainAgain

SpecMain == InitMain /\ [][NextMain]_vars


---------------------------------------------------------------------------
(* Properties of the summarizer's runs, under SpecMain.                    *)

MainRun == probe.fn = "main"

\* The CSV file that the calls of append_csv_row made so far should have
\* left: the rows the file started with, or one header when there were
\* none, and then one data row per call, in call order.
ExpectedCsv ==
    (IF probe.csv0.exists /\ probe.csv0.lines # << >>
     THEN probe.csv0.lines ELSE << HeaderRow >>)
        \o [i \in DOMAIN probe.calls |-> DataRow(probe.calls[i])]

\* C17. After n >= 1 successive calls of append_csv_row on a path that was
\* absent or held an empty file, the file holds exactly one header row and
\* then the n data rows in call order; on a file that already had rows each
\* call adds one data row at the end and no header, and the earlier rows
\* stay as they were.
C17_HeaderOnceThenRows ==
    (MainRun /\ probe.calls # << >>) => probe.csv = File(ExpectedCsv)

\* The run has written to the CSV file, or to the JSON file.
CsvWritten == probe.csv # probe.start.csv

JsonWritten == probe.json # probe.start.json

\* Every output the command line asked for is there.
Succeeded ==
    /\ probe.log.readable
    /\ probe.summary.has
    /\ probe.args.csv_append # << >> =>
         /\ CsvWritten
         /\ probe.csv.lines[Len(probe.csv.lines)] =
              DataRow(csv_row(probe.args, probe.summary.v))
    /\ probe.args.json_out # << >> =>
         probe.json = File(<< JsonSummary(probe.args, probe.summary.v) >>)

\* C18. A run of the summarizer writes to the CSV file and to the JSON file
\* only once parse_log has returned the summary; a run on a log that cannot
\* be read ends with exit code 2 and has written neither a CSV row nor a
\* JSON file, and no other run ends with 2; a run that ends with every
\* requested output written ends with exit code 0, and no other run does.
C18_OutputsAfterSummary ==
    MainRun =>
      /\ (CsvWritten \/ JsonWritten) => probe.summary.has
      /\ (pc = "exit" /\ ~probe.log.readable) =>
           probe.exit = 2 /\ ~CsvWritten /\ ~JsonWritten
      /\ probe.exit = 2 => ~probe.log.readable
      /\ pc = "exit" => (Succeeded <=> probe.exit = 0)

\* A second run, on an unreadable log, has ended with exit code 2 after a
\* first run that wrote both outputs.
C18_Witness ==
    /\ MainRun
    /\ pc = "exit"
    /\ probe.runs = 2
    /\ ~probe.log.readable
    /\ probe.exit = 2
    /\ probe.json.exists
    /\ probe.calls # << >>
    /\ probe.csv = File(ExpectedCsv)

\* The columns of a summary's row that have no value.
MissingColumns(args, summary) ==
    LET sp == infer_seed_profile(args.base_config)
    IN  (IF sp.seed.has THEN {} ELSE {"seed"})
        \cup (IF sp.profile.has THEN {} ELSE {"profile"})
        \cup (IF summary.first_interim.has THEN {}
              ELSE {"first_colors", "first_time_s"})
        \cup (IF summary.best.has THEN {}
              ELSE {"best_colors", "best_time_s"})
        \cup (IF summary.best.has /\ ~summary.best.v.time_s.has
              THEN {"best_time_s"} ELSE {})
        \cup (IF summary.last_improve_time_s.has THEN {}
              ELSE {"last_improve_time_s"})
        \cup (IF summary.tda.has THEN {} ELSE {"tda"})
        \cup (IF summary.tda_gpu.has THEN {} ELSE {"tda_gpu"})
        \cup (IF summary.final.has THEN {}
              ELSE {"final_colors", "final_conflicts", "final_time_s"})

NullText == << "n", "u", "l", "l" >>

\* The run has appended its row: it is the last row of the CSV file.
RowAppended == MainRun /\ probe.summary.has /\ CsvWritten

\* C19. In the CSV row of a summary, every column whose value is missing
\* (no seed, no first interim, no best, a best without a time, no time of
\* a last improvement, unknown TDA flags, no final) is the empty string,
\* and no cell of the row is "None" or "null".
C19_MissingIsEmpty ==
    RowAppended =>
      LET r == probe.csv.lines[Len(probe.csv.lines)]
      IN  \A i \in DOMAIN fields :
            /\ fields[i] \in MissingColumns(probe.args, probe.summary.v) =>
                 r[i] = << >>
            /\ r[i] \notin {NoneText, NullText}

\* The appended row is of a summary whose best came from an improvement
\* that had no time.
C19_Witness ==
    /\ RowAppended
    /\ probe.summary.v.best.has
    /\ ~probe.summary.v.best.v.time_s.has
    /\ probe.summary.v.improve_events # << >>
    /\ "best_colors" \notin MissingColumns(probe.args, probe.summary.v)

====
